---- MODULE Spec2Model ----
(***************************************************************************)
(* A model of scripts/train.py of TubeViT: the ResizedVideo transform, the *)
(* MyUCF101 dataset adapter, and main (metadata cache load/store, sampler  *)
(* and dataloader construction, model, fit, checkpoint).                   *)
(*                                                                         *)
(* main is modelled one file-system or library call per step, because the  *)
(* cache files live in the working directory and are shared by every run   *)
(* of the script: Spec runs main again and again, one run at a time;       *)
(* SpecConc lets two runs of main interleave on the same directory.        *)
(*                                                                         *)
(* SpecResize exercises ResizedVideo, SpecData exercises                   *)
(* MyUCF101.__getitem__.                                                   *)
(***************************************************************************)
EXTENDS Integers, Sequences, FiniteSets, TLC

VARIABLES
    dataset,    \* the videos under --dataset-root: [id, train, val]
    file,       \* the two metadata cache files, by split
    ckpt,       \* TRUE when ./models/tubevit_ucf101.ckpt exists
    firstWrite, \* history: what the first completed pickle.dump put in each file
    run,        \* per process: the locals of its run of main
    rv,         \* the ResizedVideo object under test
    out,        \* result of the last ResizedVideo.__call__
    ds,         \* the MyUCF101 object under test
    item        \* result of the last MyUCF101.__getitem__

vars == <<dataset, file, ckpt, firstWrite, run, rv, out, ds, item>>
mainVars == <<dataset, file, ckpt, firstWrite, run>>
resizeVars == <<rv, out>>
dataVars == <<ds, item>>

(***************************************************************************)
(* Bounds of the model.                                                    *)
(***************************************************************************)
NumDatasets == 2        \* distinct contents the dataset root may take
MaxSize == 3            \* largest spatial size / clip dimension tried
MaxTupleLen == 3        \* longest size tuple handed to ResizedVideo
MaxVideos == 2          \* most videos under the dataset root
MaxClipsPerVideo == 2   \* most clips one video yields

(***************************************************************************)
(* Program constants.                                                      *)
(***************************************************************************)
DefaultBatchSize == 32  \* --batch-size default
DefaultMaxEpochs == 5   \* --max-epochs default
SampleFraction == 10    \* num_samples = len(split) // 10

Splits == {"train", "val"}
Procs == {1, 2}
SeqProcs == {1}
\* Clip counts a split may have: fewer than ten, the twenty of a small
\* synthetic dataset, and enough for one default batch after sub-sampling.
ClipCounts == {5, 20, 320}
BatchSizes == {2, DefaultBatchSize}

(***************************************************************************)
(* Files and metadata.  A cache file is absent, partial (opened for        *)
(* writing and not yet completely dumped, or otherwise corrupted), or      *)
(* holds the pickled metadata of one split of one dataset content.         *)
(* Metadata is abstracted to the dataset content it was indexed from and   *)
(* the number of clips it lists (which is what len(split) returns).        *)
(***************************************************************************)
NoMeta == [k |-> "none", id |-> 0, clips |-> 0]
Absent == [k |-> "absent", id |-> 0, clips |-> 0]
Partial == [k |-> "partial", id |-> 0, clips |-> 0]
Meta(i, n) == [k |-> "meta", id |-> i, clips |-> n]

Metas == {Meta(i, n) : i \in 1..NumDatasets, n \in ClipCounts}
Datasets == [id : 1..NumDatasets, train : ClipCounts, val : ClipCounts]

\* os.path.exists(metadata_file)
Exists(f) == f.k # "absent"

\* mutant: the existence check of line 92 / 113 is dropped and the cache never read
ShouldLoad_Never(f) == FALSE

\* line 92 / 113: the cache is loaded when the file exists
ShouldLoad(f) == Exists(f)

\* mutant: a truncated pickle is read without complaint
LoadRaises_Never(f) == FALSE

\* pickle.load(f) raises on a file that is not a complete pickle
LoadRaises(f) == f.k # "meta"

\* pickle.load(f) of a complete file gives back what was dumped
PickleLoad(f) == f

\* the indexing UCF101 does when no precomputed metadata is given
Index(d, s) == Meta(d.id, d[s])

\* MyUCF101(..., _precomputed_metadata=pre).metadata
Metadata(pre, d, s) == IF pre = NoMeta THEN Index(d, s) ELSE pre

\* mutant: the condition of line 107 / 128 without its `not`
ShouldWrite_Inverted(f) == Exists(f)

\* line 107 / 128: the cache is written when the file does not exist
ShouldWrite(f) == ~Exists(f)

\* mutant: exclusive creation (mode 'xb'), which fails on an existing file
OpenSucceeds_Exclusive(f) == ~Exists(f)

\* open(metadata_file, 'wb') succeeds whatever is at the path, and truncates
OpenSucceeds(f) == TRUE

\* RandomSampler(split, num_samples=len(split) // 10)
NumSamples(n) == n \div SampleFraction

\* mutant: drop_last=False keeps the incomplete final batch
NumBatches_KeepLast(ns, bs) == (ns + bs - 1) \div bs

\* batches a DataLoader(batch_size, drop_last=True) yields over its sampler
NumBatches(ns, bs) == ns \div bs

Min(a, b) == IF a < b THEN a ELSE b

NoSplit == [s \in Splits |-> NoMeta]
NoFlags == [s \in Splits |-> FALSE]

IdleRun ==
    [pc |-> "idle", split |-> "train", batch_size |-> DefaultBatchSize,
     fast_dev_run |-> FALSE, start |-> [s \in Splits |-> Absent],
     precomputed |-> NoSplit, set |-> NoSplit, indexed |-> NoFlags,
     wrote |-> NoFlags, sampler |-> NoFlags, x |-> FALSE, model |-> FALSE,
     train_steps |-> 0, val_steps |-> 0, saved |-> FALSE, err |-> "none"]

Terminal == {"idle", "done", "aborted"}

Goto(p, r) == run' = [run EXCEPT ![p] = r]
Raise(p, e) == Goto(p, [run[p] EXCEPT !.pc = "aborted", !.err = e])

\* after lines 107-109 (train) control reaches line 111, after 128-130 line 132
AfterSplit(r) ==
    IF r.split = "train"
    THEN [r EXCEPT !.pc = "exists", !.split = "val"]
    ELSE [r EXCEPT !.pc = "train_sampler"]

(***************************************************************************)
(* main, one step per file-system or library call.                         *)
(***************************************************************************)
\* a run of main begins: the command line is parsed (lines 64-90)
Start(p) ==
    /\ run[p].pc \in Terminal
    /\ \E bs \in BatchSizes, fdr \in BOOLEAN :
         Goto(p, [IdleRun EXCEPT !.pc = "exists", !.batch_size = bs,
                                 !.fast_dev_run = fdr, !.start = file])
    /\ UNCHANGED <<resizeVars, dataVars, dataset, file, ckpt, firstWrite>>

\* lines 92 / 113: if os.path.exists(metadata_file)
CheckExists(p) ==
    /\ run[p].pc = "exists"
    /\ Goto(p, [run[p] EXCEPT
                  !.pc = IF ShouldLoad(file[run[p].split]) THEN "load" ELSE "construct"])
    /\ UNCHANGED <<resizeVars, dataVars, dataset, file, ckpt, firstWrite>>

\* lines 93-94 / 114-115: precomputed_metadata = pickle.load(f)
Load(p) ==
    /\ run[p].pc = "load"
    /\ LET s == run[p].split IN
         IF LoadRaises(file[s])
         THEN Raise(p, "UnpicklingError")
         ELSE Goto(p, [run[p] EXCEPT !.pc = "construct",
                                     !.precomputed[s] = PickleLoad(file[s])])
    /\ UNCHANGED <<resizeVars, dataVars, dataset, file, ckpt, firstWrite>>

\* lines 96-105 / 117-126: the split's MyUCF101 is constructed
ConstructSet(p) ==
    /\ run[p].pc = "construct"
    /\ LET s == run[p].split IN
         Goto(p, [run[p] EXCEPT
                    !.pc = "check",
                    !.set[s] = Metadata(run[p].precomputed[s], dataset, s),
                    !.indexed[s] = (run[p].precomputed[s] = NoMeta)])
    /\ UNCHANGED <<resizeVars, dataVars, dataset, file, ckpt, firstWrite>>

\* lines 107 / 128: if not os.path.exists(metadata_file)
CheckWrite(p) ==
    /\ run[p].pc = "check"
    /\ Goto(p, IF ShouldWrite(file[run[p].split])
               THEN [run[p] EXCEPT !.pc = "open"]
               ELSE AfterSplit(run[p]))
    /\ UNCHANGED <<resizeVars, dataVars, dataset, file, ckpt, firstWrite>>

\* lines 108 / 129: open(metadata_file, 'wb') creates or truncates the file
OpenWrite(p) ==
    /\ run[p].pc = "open"
    /\ LET s == run[p].split IN
         IF OpenSucceeds(file[s])
         THEN /\ file' = [file EXCEPT ![s] = Partial]
              /\ Goto(p, [run[p] EXCEPT !.pc = "dump"])
         ELSE /\ Raise(p, "FileExistsError")
              /\ UNCHANGED file
    /\ UNCHANGED <<resizeVars, dataVars, dataset, ckpt, firstWrite>>

\* lines 109 / 130: pickle.dump(split.metadata, f) and the file is closed
Dump(p) ==
    /\ run[p].pc = "dump"
    /\ LET s == run[p].split IN
         /\ file' = [file EXCEPT ![s] = run[p].set[s]]
         /\ firstWrite' = IF firstWrite[s] = NoMeta
                          THEN [firstWrite EXCEPT ![s] = run[p].set[s]]
                          ELSE firstWrite
         /\ Goto(p, AfterSplit([run[p] EXCEPT !.wrote[s] = TRUE]))
    /\ UNCHANGED <<resizeVars, dataVars, dataset, ckpt>>

\* lines 132-138 / 140-146: RandomSampler raises ValueError unless
\* num_samples is a positive integer; the DataLoader is built over it
Sampler(p, s, next) ==
    /\ IF NumSamples(run[p].set[s].clips) <= 0
       THEN Raise(p, "ValueError")
       ELSE Goto(p, [run[p] EXCEPT !.pc = next, !.sampler[s] = TRUE])
    /\ UNCHANGED <<resizeVars, dataVars, dataset, file, ckpt, firstWrite>>

TrainSampler(p) ==
    /\ run[p].pc = "train_sampler"
    /\ Sampler(p, "train", "val_sampler")

ValSampler(p) ==
    /\ run[p].pc = "val_sampler"
    /\ Sampler(p, "val", "next")

\* line 148: x, y = next(iter(train_dataloader))
NextBatch(p) ==
    /\ run[p].pc = "next"
    /\ IF NumBatches(NumSamples(run[p].set["train"].clips), run[p].batch_size) = 0
       THEN Raise(p, "StopIteration")
       ELSE Goto(p, [run[p] EXCEPT !.pc = "model", !.x = TRUE])
    /\ UNCHANGED <<resizeVars, dataVars, dataset, file, ckpt, firstWrite>>

\* lines 151-158: model = TubeViTLightningModule(...)
BuildModel(p) ==
    /\ run[p].pc = "model"
    /\ Goto(p, [run[p] EXCEPT !.pc = "fit", !.model = TRUE])
    /\ UNCHANGED <<resizeVars, dataVars, dataset, file, ckpt, firstWrite>>

\* lines 160-161: trainer.fit; fast_dev_run limits each loop to one batch
Fit(p) ==
    /\ run[p].pc = "fit"
    /\ LET bs == run[p].batch_size
           nt == NumBatches(NumSamples(run[p].set["train"].clips), bs)
           nv == NumBatches(NumSamples(run[p].set["val"].clips), bs)
       IN Goto(p, [run[p] EXCEPT
                     !.pc = "save",
                     !.train_steps = IF run[p].fast_dev_run THEN Min(1, nt)
                                     ELSE DefaultMaxEpochs * nt,
                     !.val_steps = IF run[p].fast_dev_run THEN Min(1, nv)
                                   ELSE DefaultMaxEpochs * nv])
    /\ UNCHANGED <<resizeVars, dataVars, dataset, file, ckpt, firstWrite>>

\* line 162: trainer.save_checkpoint('./models/tubevit_ucf101.ckpt')
SaveCheckpoint(p) ==
    /\ run[p].pc = "save"
    /\ ckpt' = TRUE
    /\ Goto(p, [run[p] EXCEPT !.pc = "done", !.saved = TRUE])
    /\ UNCHANGED <<resizeVars, dataVars, dataset, file, firstWrite>>

\* the environment: between two runs the videos under the dataset root are
\* replaced
ChangeDataset ==
    /\ \A p \in Procs : run[p].pc \in Terminal
    /\ \E d \in Datasets : d.id # dataset.id /\ dataset' = d
    /\ UNCHANGED <<resizeVars, dataVars, file, ckpt, firstWrite, run>>

\* one of two runs launched side by side with the same command line: each
\* runs main once
StartConc(p) ==
    /\ run[p].pc = "idle"
    /\ Start(p)
    /\ \A q \in Procs :
         run[q].pc # "idle" =>
           /\ run'[p].batch_size = run[q].batch_size
           /\ run'[p].fast_dev_run = run[q].fast_dev_run

\* the working directory before the first run: each cache file is absent, was
\* left partial by a run that was interrupted while dumping it, or holds the
\* metadata of some earlier dataset content
MainInit ==
    /\ dataset \in Datasets
    /\ file \in [Splits -> {Absent, Partial} \cup Metas]
    /\ ckpt = FALSE
    /\ firstWrite = NoSplit
    /\ run = [p \in Procs |-> IdleRun]

MainStep(p) ==
    \/ CheckExists(p)
    \/ Load(p)
    \/ ConstructSet(p)
    \/ CheckWrite(p)
    \/ OpenWrite(p)
    \/ Dump(p)
    \/ TrainSampler(p)
    \/ ValSampler(p)
    \/ NextBatch(p)
    \/ BuildModel(p)
    \/ Fit(p)
    \/ SaveCheckpoint(p)

(***************************************************************************)
(* ResizedVideo.  A size argument is an int or a tuple of ints; a clip is   *)
(* a tensor, of which the shape is kept; the resized clip is kept as its    *)
(* shape together with what it was interpolated from, to which size and in  *)
(* which mode.                                                              *)
(***************************************************************************)
Modes == {"bilinear", "nearest"}
Dims == 1..MaxSize
IntArg(s) == [kind |-> "int", v |-> <<s>>]
TupleArg(q) == [kind |-> "tuple", v |-> q]
Tuples == UNION {[1..n -> Dims] : n \in 0..MaxTupleLen}
SizeArgs == {IntArg(s) : s \in Dims} \cup {TupleArg(q) : q \in Tuples}
\* clips of shape (C, T, H, W), and one tensor each of rank 3 and rank 5
ClipShapes ==
    {<<c, n, h, w>> : c \in {1, 3}, n \in {1, 2}, h \in Dims, w \in Dims}
    \cup {<<1, 1, 1>>, <<1, 1, 1, 1, 1>>}

NoObject == [state |-> "none"]
NoTensor == [state |-> "none"]

\* mutant: the assertion of line 25 is missing
TupleSizeOk_Any(q) == TRUE

\* line 25: assert len(size) == 2
TupleSizeOk(q) == Len(q) = 2

\* mutant: the int is wrapped, not paired
IntSize_Single(s) == <<s>>

\* line 28: self.size = (size, size)
IntSize(s) == <<s, s>>

\* ResizedVideo.__init__
ResizedVideoInit(size, interpolation_mode) ==
    IF size.kind = "tuple"
    THEN IF TupleSizeOk(size.v)
         THEN [state |-> "object", size |-> size.v,
               interpolation_mode |-> interpolation_mode, arg |-> size]
         ELSE [state |-> "AssertionError", arg |-> size]
    ELSE [state |-> "object", size |-> IntSize(size.v[1]),
          interpolation_mode |-> interpolation_mode, arg |-> size]

\* torchvision's resize(clip, target_size, interpolation_mode): the two
\* trailing dimensions of a 4-D tensor are interpolated to target_size
Resize(clip, target_size, interpolation_mode) ==
    IF Len(target_size) # 2 \/ Len(clip) # 4
    THEN [state |-> "error", clip |-> clip]
    ELSE [state |-> "tensor", clip |-> clip,
          shape |-> <<clip[1], clip[2], target_size[1], target_size[2]>>,
          size |-> target_size, mode |-> interpolation_mode]

\* mutant: the size is handed over as (width, height)
ResizedVideoCall_Swapped(self, clip) ==
    Resize(clip, <<self.size[2], self.size[1]>>, self.interpolation_mode)

\* ResizedVideo.__call__
ResizedVideoCall(self, clip) == Resize(clip, self.size, self.interpolation_mode)

\* transform = ResizedVideo(size, interpolation_mode)
NewResizedVideo ==
    /\ rv.state = "none"
    /\ \E size \in SizeArgs, m \in Modes : rv' = ResizedVideoInit(size, m)
    /\ out' = NoTensor
    /\ UNCHANGED <<mainVars, dataVars>>

\* transform(clip)
CallResizedVideo ==
    /\ rv.state = "object"
    /\ \E clip \in ClipShapes : out' = ResizedVideoCall(rv, clip)
    /\ UNCHANGED <<mainVars, dataVars, rv>>

(***************************************************************************)
(* MyUCF101.  The base class lists every video under the root as           *)
(* samples[i] = (path, class index), sorted by class; indices are the      *)
(* samples of the selected fold; video_clips holds the clips of those      *)
(* videos, in that order.  A clip is kept as the sample it was decoded      *)
(* from, its position in that video, and the transforms applied to it.     *)
(* Python's indices count from 0, the sequences here from 1.               *)
(***************************************************************************)
Classes == {0, 1}
None == "None"
Transforms == {"flip", "resize"}

RECURSIVE SortedSeq(_)
\* the elements of a set of naturals in increasing order
SortedSeq(S) ==
    IF S = {} THEN <<>>
    ELSE LET m == CHOOSE x \in S : \A y \in S : x <= y
         IN <<m>> \o SortedSeq(S \ {m})

NonDecreasing(q) == \A i \in 1..Len(q) - 1 : q[i] <= q[i + 1]

\* every MyUCF101 over at most MaxVideos videos
DatasetObjects ==
    UNION {
      { [labels |-> l, nclips |-> c, indices |-> SortedSeq(f),
         transform |-> tr, frame_transform |-> ft] :
          l \in {q \in [1..n -> Classes] : NonDecreasing(q)},
          c \in [1..n -> 0..MaxClipsPerVideo],
          f \in SUBSET (0..n - 1),
          tr \in Transforms \cup {None},
          ft \in Transforms \cup {None} } : n \in 1..MaxVideos }

RECURSIVE CumulativeSizes(_, _)
\* video_clips.cumulative_sizes of the fold: running totals of clip counts
CumulativeSizes(self, k) ==
    IF k = 0 THEN <<>>
    ELSE LET prev == CumulativeSizes(self, k - 1)
             last == IF k = 1 THEN 0 ELSE prev[k - 1]
         IN Append(prev, last + self.nclips[self.indices[k] + 1])

\* len(self): video_clips.num_clips()
NumClips(self) ==
    LET cs == CumulativeSizes(self, Len(self.indices))
    IN IF cs = <<>> THEN 0 ELSE cs[Len(cs)]

\* bisect.bisect_right(cumulative_sizes, idx)
BisectRight(cs, idx) == Cardinality({i \in 1..Len(cs) : cs[i] <= idx})

\* self.video_clips.get_clip(idx): (video, audio, info, video_idx)
GetClip(self, idx) ==
    LET cs == CumulativeSizes(self, Len(self.indices))
        video_idx == BisectRight(cs, idx)
        clip_idx == IF video_idx = 0 THEN idx ELSE idx - cs[video_idx]
    IN IF idx < 0 \/ idx >= NumClips(self)
       THEN [state |-> "IndexError"]
       ELSE [state |-> "clip", video_idx |-> video_idx,
             video |-> [src |-> self.indices[video_idx + 1], clip |-> clip_idx,
                        applied |-> <<>>]]

\* transform(video)
Apply(tr, video) == [video EXCEPT !.applied = Append(@, tr)]

\* mutant: the fold's video index is used as a sample index
Label_Unmapped(self, video_idx) == self.labels[video_idx + 1]

\* line 56: label = self.samples[self.indices[video_idx]][1]
Label(self, video_idx) == self.labels[self.indices[video_idx + 1] + 1]

\* mutant: frame_transform is applied too
Transformed_WithFrame(self, video) ==
    LET v == IF self.transform # None THEN Apply(self.transform, video) ELSE video
    IN IF self.frame_transform # None THEN Apply(self.frame_transform, v) ELSE v

\* lines 58-59: if self.transform is not None: video = self.transform(video)
Transformed(self, video) ==
    IF self.transform # None THEN Apply(self.transform, video) ELSE video

\* MyUCF101.__getitem__
GetItem(self, idx) ==
    LET got == GetClip(self, idx)
    IN IF got.state # "clip"
       THEN [state |-> "IndexError", idx |-> idx]
       ELSE [state |-> "item", idx |-> idx,
             video |-> Transformed(self, got.video),
             label |-> Label(self, got.video_idx)]

NoDataset == [state |-> "none"]
NoItem == [state |-> "none"]

\* dataset = MyUCF101(frame_transform, ..., transform=transform)
NewDataset ==
    /\ ds.state = "none"
    /\ \E d \in DatasetObjects : ds' = [state |-> "object", self |-> d]
    /\ item' = NoItem
    /\ UNCHANGED <<mainVars, resizeVars>>

\* dataset[idx], for the indices in range and one index past each end
CallGetItem ==
    /\ ds.state = "object"
    /\ \E idx \in -1..NumClips(ds.self) : item' = GetItem(ds.self, idx)
    /\ UNCHANGED <<mainVars, resizeVars, ds>>

UnitIdle ==
    /\ rv = NoObject
    /\ out = NoTensor
    /\ ds = NoDataset
    /\ item = NoItem

\* no run of main has started, in an empty working directory
MainIdle ==
    /\ dataset = [id |-> 1, train |-> 20, val |-> 20]
    /\ file = [s \in Splits |-> Absent]
    /\ ckpt = FALSE
    /\ firstWrite = NoSplit
    /\ run = [p \in Procs |-> IdleRun]

Init == MainInit /\ UnitIdle

\* runs of main one after another in one working directory
Next ==
    \/ \E p \in SeqProcs : Start(p) \/ MainStep(p)
    \/ ChangeDataset

Spec == Init /\ [][Next]_vars

\* two runs of main interleaving in one working directory
NextConc ==
    \/ \E p \in Procs : StartConc(p) \/ MainStep(p)

\* the cache files are absent or were left by an earlier run over the same
\* dataset
InitConc ==
    /\ Init
    /\ dataset.id = 1
    /\ \A s \in Splits : file[s] \in {Absent, Index(dataset, s)}

SpecConc == InitConc /\ [][NextConc]_vars

\* the ResizedVideo transform on its own
InitResize == MainIdle /\ UnitIdle
NextResize == NewResizedVideo \/ CallResizedVideo
SpecResize == InitResize /\ [][NextResize]_vars

\* the MyUCF101 adapter on its own
InitData == MainIdle /\ UnitIdle
NextData == NewDataset \/ CallGetItem
SpecData == InitData /\ [][NextData]_vars

(***************************************************************************)
(* Properties.                                                             *)
(***************************************************************************)
\* the run has left the lines that write the cache of split s (107-109 or
\* 128-130) behind
PastWrite(r, s) ==
    /\ r.set[s] # NoMeta
    /\ ~(r.split = s /\ r.pc \in {"check", "open", "dump"})

\* C1: runs one at a time.  A split whose cache file was absent when the run
\* started has, once the run is past that split's write, a cache file holding
\* the metadata the split's dataset indexed; a split whose cache file was
\* present gets the file's content as precomputed metadata and does not index.
C1_CacheWrittenOrReused ==
    \A p \in Procs, s \in Splits :
      LET r == run[p] IN
        /\ (r.start[s] = Absent /\ PastWrite(r, s)) =>
             /\ r.indexed[s]
             /\ r.wrote[s]
             /\ file[s].k = "meta"
             /\ file[s] = r.set[s]
        /\ (r.pc # "idle" /\ Exists(r.start[s]) /\ r.set[s] # NoMeta) =>
             /\ r.precomputed[s] = r.start[s]
             /\ r.set[s] = r.start[s]
             /\ ~r.indexed[s]

\* C1 witness: a run that found the train cache absent and the validation
\* cache present has built both splits
C1_Witness ==
    \E p \in Procs :
      /\ run[p].pc = "train_sampler"
      /\ run[p].start["train"] = Absent
      /\ run[p].start["val"].k = "meta"
      /\ run[p].wrote["train"]
      /\ ~run[p].indexed["val"]

C2_Inv ==
    \A s \in Splits :
      firstWrite[s] # NoMeta =>
        /\ file[s] = firstWrite[s]
        /\ \A p \in Procs : run[p].set[s] # NoMeta => run[p].set[s] = firstWrite[s]

C2_Act == \A s \in Splits : file[s].k = "meta" => file'[s] = file[s]

\* C2: runs one at a time.  Once a run has written a cache file, the file
\* keeps that content, every dataset built from then on has exactly that
\* content as its metadata, and no complete cache file is ever rewritten,
\* whatever happens to the dataset in between.
C2_NeverRewritten == [](C2_Inv) /\ [][C2_Act]_vars

\* C2 witness: a later run has built a split from the cache an earlier run
\* wrote, after the dataset was replaced
C2_Witness ==
    \E p \in Procs, s \in Splits :
      /\ firstWrite[s] # NoMeta
      /\ run[p].set[s] = firstWrite[s]
      /\ ~run[p].indexed[s]
      /\ ~run[p].wrote[s]
      /\ run[p].set[s].id # dataset.id

C3_Inv ==
    \A p \in Procs :
      LET r == run[p] IN
        (r.pc = "aborted" /\ r.err = "UnpicklingError") =>
          /\ file[r.split] = Partial
          /\ r.set[r.split] = NoMeta
          /\ ~r.wrote[r.split]
          /\ (r.split = "train" => r.set["val"] = NoMeta /\ ~r.wrote["val"])
          /\ \A s \in Splits : ~r.sampler[s]
          /\ ~r.x /\ ~r.model /\ ~r.saved
          /\ r.train_steps = 0 /\ r.val_steps = 0

C3_Act ==
    \A p \in Procs :
      /\ (run[p].pc = "load" /\ file[run[p].split] = Partial /\ run'[p] # run[p]) =>
           /\ run'[p].pc = "aborted"
           /\ run'[p].err = "UnpicklingError"
      /\ (run[p].pc = "aborted" /\ run'[p] # run[p]) =>
           /\ run'[p].pc = "exists"
           /\ run'[p].split = "train"
           /\ file' = file
           /\ ckpt' = ckpt

\* C3: runs one at a time.  Loading a partial cache file ends the run with the
\* deserialization error; the aborted run has built no dataset for that split,
\* has left the file as it was, has built no sampler, batch or model, has
\* trained nothing and saved nothing, and does nothing more: the next step is
\* a new run of main from its first line.
C3_CorruptCacheAborts == [](C3_Inv) /\ [][C3_Act]_vars

\* C3 witness: a run aborted on a partial validation cache after it had built
\* the train split
C3_Witness ==
    \E p \in Procs :
      /\ run[p].pc = "aborted"
      /\ run[p].err = "UnpicklingError"
      /\ run[p].split = "val"
      /\ run[p].set["train"] # NoMeta

C4_Act ==
    \A p \in Procs :
      /\ (run[p].pc = "open" /\ run'[p] # run[p]) =>
           /\ run'[p].pc = "dump"
           /\ file'[run[p].split] = Partial
      /\ (run[p].pc = "dump" /\ run'[p] # run[p]) =>
           /\ file'[run[p].split] = run[p].set[run[p].split]
           /\ run'[p].pc # "aborted"
      /\ (run[p].pc = "load" /\ run'[p] # run[p]) =>
           \/ run'[p].precomputed[run[p].split] = file[run[p].split]
           \/ run'[p].pc = "aborted"

\* C4: two runs side by side.  Nothing guards the cache file: a run that found
\* it absent at line 107 / 128 truncates it and dumps its own metadata into it
\* whatever the other run has done to it since, and a run that found it
\* present reads whatever is in it at that moment.
C4_Unguarded == [][C4_Act]_vars

\* C4 witness: both runs found the train cache absent, indexed and wrote it;
\* then one run read the validation cache while the other was between opening
\* and dumping it
C4_Witness ==
    /\ \A p \in Procs : run[p].indexed["train"] /\ run[p].wrote["train"]
    /\ \E p, q \in Procs :
         /\ p # q
         /\ run[q].pc = "dump" /\ run[q].split = "val"
         /\ run[p].pc = "aborted" /\ run[p].split = "val"
         /\ run[p].err = "UnpicklingError"

\* C5 as stated: in fast-validation mode a run over a dataset of 20 clips per
\* split ends with one training step, one validation step and the checkpoint
C5_Original ==
    \A p \in Procs :
      LET r == run[p] IN
        (/\ r.fast_dev_run
         /\ r.set["train"].clips = 20 /\ r.set["val"].clips = 20
         /\ r.pc \in {"done", "aborted"}) =>
          /\ r.pc = "done"
          /\ r.train_steps = 1 /\ r.val_steps = 1
          /\ r.saved /\ ckpt

\* C5, amended: in fast-validation mode a run that has built both splits ends
\* with the drawn batch, one training step, one validation step and the
\* checkpoint when a tenth of each split holds a full batch; when a tenth of
\* the train split holds no full batch, or a split has fewer than ten clips,
\* it aborts before the model is built and saves nothing.
C5_Amended ==
    \A p \in Procs :
      LET r == run[p]
          nt == r.set["train"].clips \div SampleFraction
          nv == r.set["val"].clips \div SampleFraction
      IN (/\ r.fast_dev_run
          /\ r.set["train"] # NoMeta /\ r.set["val"] # NoMeta
          /\ r.pc \in {"done", "aborted"}) =>
           /\ (nt >= r.batch_size /\ nv >= r.batch_size) =>
                /\ r.pc = "done"
                /\ r.x /\ r.model
                /\ r.train_steps = 1 /\ r.val_steps = 1
                /\ r.saved /\ ckpt
           /\ (nt < r.batch_size \/ nv = 0) =>
                /\ r.pc = "aborted"
                /\ r.err = IF nt = 0 \/ nv = 0 THEN "ValueError" ELSE "StopIteration"
                /\ ~r.x /\ ~r.model /\ ~r.saved
                /\ r.train_steps = 0 /\ r.val_steps = 0

\* C5 witness: a fast-validation run over 20 clips per split is done, with one
\* step of each kind and the checkpoint
C5_Witness ==
    \E p \in Procs :
      /\ run[p].pc = "done"
      /\ run[p].fast_dev_run
      /\ run[p].set["train"].clips = 20 /\ run[p].set["val"].clips = 20
      /\ run[p].train_steps = 1 /\ run[p].val_steps = 1
      /\ ckpt

RECURSIVE ClipOwners(_, _)
\* the sample each clip of the fold comes from, clip by clip: the videos of
\* the fold in order, each repeated once per clip it yields
ClipOwners(self, k) ==
    IF k = 0 THEN <<>>
    ELSE ClipOwners(self, k - 1)
         \o [j \in 1..self.nclips[self.indices[k] + 1] |-> self.indices[k]]

\* C6: for every index in range, __getitem__ returns a clip of the video that
\* index belongs to and the label samples records for that video, under every
\* transform and under none; only an index out of range raises.
C6_LabelOfSourceVideo ==
    item.state # "none" =>
      LET owners == ClipOwners(ds.self, Len(ds.self.indices))
      IN IF item.idx >= 0 /\ item.idx < Len(owners)
         THEN /\ item.state = "item"
              /\ item.video.src = owners[item.idx + 1]
              /\ item.label = ds.self.labels[owners[item.idx + 1] + 1]
         ELSE item.state = "IndexError"

\* C6 witness: an item of a fold that does not start at the first sample, with
\* a transform configured, whose label is not the label of the first sample
C6_Witness ==
    /\ item.state = "item"
    /\ ds.self.transform # None
    /\ ds.self.indices[1] # 0
    /\ ds.self.labels[1] = 0
    /\ item.label = 1

\* C10: what __getitem__ returns does not depend on frame_transform: the clip
\* has had the dataset's transform applied exactly once when there is one and
\* nothing applied when there is none.
C10_FrameTransformUnused ==
    item.state = "item" =>
      /\ item.video.applied =
           IF ds.self.transform = None THEN <<>> ELSE <<ds.self.transform>>
      /\ \A ft \in Transforms \cup {None} :
           GetItem([ds.self EXCEPT !.frame_transform = ft], item.idx) = item

\* C10 witness: an item of a dataset that has a frame_transform and another
\* transform
C10_Witness ==
    /\ item.state = "item"
    /\ ds.self.frame_transform # None
    /\ ds.self.transform # None
    /\ ds.self.transform # ds.self.frame_transform

\* the (height, width) a size argument asks for
Requested(arg) == IF arg.kind = "int" THEN <<arg.v[1], arg.v[1]>> ELSE arg.v

C7_Inv ==
    (out.state # "none" /\ Len(out.clip) = 4) =>
      /\ out.state = "tensor"
      /\ Len(out.shape) = 4
      /\ out.shape[1] = out.clip[1] /\ out.shape[2] = out.clip[2]
      /\ out.shape[3] = Requested(rv.arg)[1]
      /\ out.shape[4] = Requested(rv.arg)[2]

C7_Act == out'.state # "none" => rv' = rv

\* C7: a 4-D clip (C, T, H, W) comes back from __call__ as a 4-D clip
\* (C, T, height, width) for the height and width the transform was built
\* with, and the call leaves the transform as it was.
C7_ResizeShape == [](C7_Inv) /\ [][C7_Act]_vars

\* C7 witness: a clip resized to a height that differs from its own and from
\* the width
C7_Witness ==
    /\ out.state = "tensor"
    /\ out.shape[3] # out.clip[3]
    /\ out.shape[3] # out.shape[4]

\* C8: a tuple whose length is not 2 fails the constructor's assertion: there
\* is no transform object and nothing was resized.
C8_TupleLengthChecked ==
    (rv.state # "none" /\ rv.arg.kind = "tuple" /\ Len(rv.arg.v) # 2) =>
      /\ rv.state = "AssertionError"
      /\ out.state = "none"

\* C8 witness: the constructor was given a tuple of three
C8_Witness ==
    /\ rv.state = "AssertionError"
    /\ Len(rv.arg.v) = 3

\* C9: the transform built from an int s is the transform built from (s, s):
\* the same size (s, s), the same mode, the same result on the clip resized.
C9_IntIsSquareTuple ==
    (rv.state # "none" /\ rv.arg.kind = "int") =>
      LET s == rv.arg.v[1]
          twin == ResizedVideoInit(TupleArg(<<s, s>>), rv.interpolation_mode)
      IN /\ rv.state = "object"
         /\ twin.state = "object"
         /\ rv.size = <<s, s>>
         /\ rv.size = twin.size
         /\ rv.interpolation_mode = twin.interpolation_mode
         /\ out.state # "none" => out = ResizedVideoCall(twin, out.clip)

\* C9 witness: a transform built from an int has resized a clip
C9_Witness ==
    /\ rv.state = "object"
    /\ rv.arg.kind = "int"
    /\ out.state = "tensor"

====
